---- MODULE Spec2Model ----
(***************************************************************************)
(* Model of japanese_word_srs (src/src/main.rs): the SQLite-backed         *)
(* KnowledgeDB (sentences, words, word_sentence), the SM-2 scheduler       *)
(* super_memo_2, the review picker, the sentence selector, the review verb *)
(* and the sentence splitter iterate_sentences.                            *)
(*                                                                         *)
(* Conventions.                                                            *)
(*  - A table is a sequence of rows; a row's AUTOINCREMENT id is its       *)
(*    index (nothing in the program deletes rows).                         *)
(*  - f32 ease factors are held in thousandths (2.5 is 2500); a quality    *)
(*    rating is held in half points (4.0 is 8, 2.5 is 5).                  *)
(*  - An i64 / f64 magnitude is a record [hi, lo] standing for             *)
(*    hi * 2^63 + lo, with |lo| far below 2^10: i64::MAX is [1, -1].       *)
(*  - A timestamp is the text chrono's Display prints, as a sequence of    *)
(*    ASCII codes; SQL NULL is the empty sequence.                         *)
(***************************************************************************)
EXTENDS Integers, Sequences, FiniteSets, TLC

VARIABLES
    sentences,      \* table sentences: sequence of texts
    words,          \* table words: sequence of word rows
    word_sentence,  \* table word_sentence: set of <<word_id, sentence_id>>
    now,            \* the clock Utc::now() reads, in ticks
    reviews,        \* number of rows review_word has updated so far
    tx,             \* the connection's open transaction: its position in
                    \* add_sentence and the tables as the transaction sees them
    hist,           \* history, not program state: per word text, what
                    \* review_word has recorded since the last rating below 3.0
    ret             \* the last step: the call, its argument and what it returned

vars == <<sentences, words, word_sentence, now, reviews, tx, hist, ret>>

store == <<sentences, words, word_sentence>>

----------------------------------------------------------------------------
(* Bounds of the model *)

MaxNow == 4
MaxReviews == 2
MaxWordReviews == 4
MaxRep == 4
MaxDuration == 7
MaxTextLen == 6

(* Input domains *)

SentenceTexts == {"s1", "s2"}

WordTexts == {"a", "b", "u"}

\* the base forms the tokenizer finds in each text of the corpus
tokenize(sentence) ==
    CASE sentence = "s1" -> <<"a", "u", "b">>
      [] sentence = "s2" -> <<"a", "u", "a">>
      [] sentence = "s4" -> <<"u", "a">>
      [] OTHER           -> <<>>

\* token sequences a text may come with when it is offered again
TokenSeqs == { tokenize(s) : s \in SentenceTexts } \cup { <<>>, <<"b", "b">> }

\* ratings 0.0, 0.5, ..., 5.0 in half points
Qualities == 0..10

\* the ratings 1.0, 3.0, 4.0 and 5.0
SomeQualities == {2, 6, 8, 10}

\* what buffer.trim().parse::<f32>() makes of the line read from stdin: Err
\* (ok is FALSE) or Ok(quality); the ratings are -0.5, 1.0, 4.0 and 5.5
QualityInputs ==
    { [ok |-> FALSE, quality |-> 0] }
    \cup { [ok |-> TRUE, quality |-> q] : q \in {-1, 2, 8, 11} }

----------------------------------------------------------------------------
(* SuperMemoItem and super_memo_2 *)

SuperMemoItem(r, d, e) == [repitition |-> r, duration |-> d, e_factor |-> e]

\* 0.1 - (5 - q) * (0.08 + (5 - q) * 0.02), in thousandths, q in half points
EaseDelta(response_quality) ==
    100 - (10 - response_quality) * (40 + (10 - response_quality) * 5)

Max(a, b) == IF a >= b THEN a ELSE b

\* ((duration as f32) * e_factor).ceil() as u32, e_factor in thousandths
CeilMul(duration, e_factor) == (duration * e_factor + 999) \div 1000

super_memo_2_lapse_keeps_rep(item, response_quality) ==
    LET repitition == item.repitition
    IN  CASE repitition = 0 -> SuperMemoItem(1, 1, item.e_factor)
          [] repitition = 1 -> SuperMemoItem(2, 6, item.e_factor)
          [] OTHER ->
               LET e_factor == Max(item.e_factor + EaseDelta(response_quality), 1300)
                   duration == CeilMul(item.duration, e_factor)
               IN  SuperMemoItem(repitition + 1, duration, e_factor)

super_memo_2_fixed_steps_swapped(item, response_quality) ==
    LET repitition == IF response_quality < 6 THEN 0 ELSE item.repitition
    IN  CASE repitition = 0 -> SuperMemoItem(1, 1, item.e_factor)
          [] repitition = 1 -> SuperMemoItem(2, item.duration, item.e_factor)
          [] OTHER ->
               LET e_factor == Max(item.e_factor + EaseDelta(response_quality), 1300)
                   duration == CeilMul(item.duration, e_factor)
               IN  SuperMemoItem(repitition + 1, duration, e_factor)

super_memo_2_old_ease(item, response_quality) ==
    LET repitition == IF response_quality < 6 THEN 0 ELSE item.repitition
    IN  CASE repitition = 0 -> SuperMemoItem(1, 1, item.e_factor)
          [] repitition = 1 -> SuperMemoItem(2, 6, item.e_factor)
          [] OTHER ->
               LET e_factor == Max(item.e_factor + EaseDelta(response_quality), 1300)
                   duration == CeilMul(item.duration, item.e_factor)
               IN  SuperMemoItem(repitition + 1, duration, e_factor)

super_memo_2_no_floor(item, response_quality) ==
    LET repitition == IF response_quality < 6 THEN 0 ELSE item.repitition
    IN  CASE repitition = 0 -> SuperMemoItem(1, 1, item.e_factor)
          [] repitition = 1 -> SuperMemoItem(2, 6, item.e_factor)
          [] OTHER ->
               LET e_factor == Max(item.e_factor + EaseDelta(response_quality), 0)
                   duration == CeilMul(item.duration, e_factor)
               IN  SuperMemoItem(repitition + 1, duration, e_factor)

super_memo_2_lapse_to_zero(item, response_quality) ==
    IF response_quality < 6 THEN SuperMemoItem(0, 1, item.e_factor)
    ELSE CASE item.repitition = 0 -> SuperMemoItem(1, 1, item.e_factor)
           [] item.repitition = 1 -> SuperMemoItem(2, 6, item.e_factor)
           [] OTHER ->
                LET e_factor == Max(item.e_factor + EaseDelta(response_quality), 1300)
                    duration == CeilMul(item.duration, e_factor)
                IN  SuperMemoItem(item.repitition + 1, duration, e_factor)

super_memo_2_first_step_zero(item, response_quality) ==
    LET repitition == IF response_quality < 6 THEN 0 ELSE item.repitition
    IN  CASE repitition = 0 -> SuperMemoItem(1, 0, item.e_factor)
          [] repitition = 1 -> SuperMemoItem(2, 6, item.e_factor)
          [] OTHER ->
               LET e_factor == Max(item.e_factor + EaseDelta(response_quality), 1300)
                   duration == CeilMul(item.duration, e_factor)
               IN  SuperMemoItem(repitition + 1, duration, e_factor)

super_memo_2(item, response_quality) ==
    LET repitition == IF response_quality < 6 THEN 0 ELSE item.repitition
    IN  CASE repitition = 0 -> SuperMemoItem(1, 1, item.e_factor)
          [] repitition = 1 -> SuperMemoItem(2, 6, item.e_factor)
          [] OTHER ->
               LET e_factor == Max(item.e_factor + EaseDelta(response_quality), 1300)
                   duration == CeilMul(item.duration, e_factor)
               IN  SuperMemoItem(repitition + 1, duration, e_factor)

----------------------------------------------------------------------------
(* WordFrequencyList *)

\* japanese_word_frequency.txt, one word per line, most frequent first
FrequencyList == <<"a", "b">>

I64(n) == [hi |-> 0, lo |-> n]

I64_MAX == [hi |-> 1, lo |-> -1]

\* HashMap::insert keeps the last index of a repeated line
get_word_freq(word) ==
    IF \E i \in 1..Len(FrequencyList) : FrequencyList[i] = word
    THEN LET i == CHOOSE i \in 1..Len(FrequencyList) :
                     /\ FrequencyList[i] = word
                     /\ \A j \in 1..Len(FrequencyList) : FrequencyList[j] = word => j <= i
         IN  I64(i - 1)
    ELSE I64_MAX

\* order of two magnitudes [hi, lo]
MagLess(x, y) == x.hi < y.hi \/ (x.hi = y.hi /\ x.lo < y.lo)

\* `freq as f64`: exact below 2^53; i64::MAX rounds to 2^63
AsF64(freq) == IF freq.hi = 0 THEN freq ELSE [hi |-> freq.hi, lo |-> 0]

\* f64 addition: from 2^63 on the spacing of f64 is at least 2048, so an
\* addend below 1024 is rounded away
F64Add(x, y) ==
    IF x.hi + y.hi > 0 THEN [hi |-> x.hi + y.hi, lo |-> 0]
    ELSE [hi |-> 0, lo |-> x.lo + y.lo]

----------------------------------------------------------------------------
(* Timestamps: format!("{}", DateTime<Utc>) and SQLite's text comparison *)

\* chrono::Duration::days(1), in ticks of the clock (a tick is half a day)
TicksPerDay == 2

NULL == <<>>

Digit(d) == 48 + d

\* Display of DateTime<Utc>: the date and time in fixed width, the
\* fraction only when it is not zero (".500"), then " UTC"
Format(t) ==
    LET whole == t \div TicksPerDay
        frac  == t % TicksPerDay
    IN  <<Digit(whole \div 10), Digit(whole % 10)>>
        \o (IF frac = 0 THEN <<>> ELSE <<46, Digit((10 * frac) \div TicksPerDay), 48, 48>>)
        \o <<32, 85, 84, 67>>

\* a < b for two TEXT values under SQLite's BINARY collation
RECURSIVE TextLess(_, _)
TextLess(a, b) ==
    IF a = <<>> THEN b # <<>>
    ELSE IF b = <<>> THEN FALSE
    ELSE IF Head(a) # Head(b) THEN Head(a) < Head(b)
    ELSE TextLess(Tail(a), Tail(b))

----------------------------------------------------------------------------
(* KnowledgeDB *)

\* no transaction is open
NoTx ==
    [ pc |-> "idle", sentence |-> "", tokens |-> <<>>, rest |-> <<>>,
      sentence_id |-> 0,
      sentences |-> <<>>, words |-> <<>>, word_sentence |-> {},
      journal |-> <<>> ]

\* a row INSERT INTO words(count, frequency, text) VALUES(1, ?, ?) creates:
\* the other columns take the defaults of CREATE TABLE words
NewWord(text, frequency) ==
    [ text            |-> text,
      count           |-> 1,
      frequency       |-> frequency,
      reviewed        |-> FALSE,
      next_review_at  |-> NULL,
      review_duration |-> 0,
      e_factor        |-> 0,
      repitition      |-> 0 ]

\* SELECT id FROM words WHERE text = ?  (0: no such row)
WordId(ws, text) ==
    IF \E i \in 1..Len(ws) : ws[i].text = text
    THEN CHOOSE i \in 1..Len(ws) : ws[i].text = text
    ELSE 0

\* SELECT id FROM sentences WHERE text = ?  (0: no such row)
SentenceId(ss, text) ==
    IF \E i \in 1..Len(ss) : ss[i] = text
    THEN CHOOSE i \in 1..Len(ss) : ss[i] = text
    ELSE 0

UpsertWord_resets_row(ws, word, frequency) ==
    IF WordId(ws, word) = 0
    THEN Append(ws, NewWord(word, frequency))
    ELSE [ws EXCEPT ![WordId(ws, word)] =
            [NewWord(word, frequency) EXCEPT !.count = ws[WordId(ws, word)].count + 1]]

\* INSERT INTO words ... ON CONFLICT(text) DO UPDATE SET count=count + 1
UpsertWord(ws, word, frequency) ==
    IF WordId(ws, word) = 0
    THEN Append(ws, NewWord(word, frequency))
    ELSE [ws EXCEPT ![WordId(ws, word)].count = @ + 1]

RECURSIVE AddWords_without_links(_, _, _, _)
AddWords_without_links(tokens, sentence_id, ws, links) ==
    IF tokens = <<>> THEN [words |-> ws, word_sentence |-> links]
    ELSE LET word      == Head(tokens)
             frequency == get_word_freq(word)
             ws2       == UpsertWord(ws, word, frequency)
         IN  AddWords_without_links(Tail(tokens), sentence_id, ws2, links)

\* the loop `for word in words` of add_sentence
RECURSIVE AddWords(_, _, _, _)
AddWords(tokens, sentence_id, ws, links) ==
    IF tokens = <<>> THEN [words |-> ws, word_sentence |-> links]
    ELSE LET word      == Head(tokens)
             frequency == get_word_freq(word)
             ws2       == UpsertWord(ws, word, frequency)
             word_id   == WordId(ws2, word)
         IN  AddWords(Tail(tokens), sentence_id, ws2,
                      links \cup {<<word_id, sentence_id>>})

add_sentence_always_adds_words(sentence, tokens) ==
    LET changes     == IF SentenceId(sentences, sentence) = 0 THEN 1 ELSE 0
        sentence_id == IF changes = 1 THEN Len(sentences) + 1
                       ELSE SentenceId(sentences, sentence)
        r           == AddWords(tokens, sentence_id, words, word_sentence)
    IN  /\ sentences' = IF changes = 1 THEN Append(sentences, sentence) ELSE sentences
        /\ words' = r.words
        /\ word_sentence' = r.word_sentence
        /\ ret' = [op |-> "add_sentence", arg |-> sentence,
                   val |-> IF changes = 1 THEN "inserted" ELSE "ignored"]
        /\ UNCHANGED <<now, reviews, tx>>

add_sentence(sentence, tokens) ==
    LET changes == IF SentenceId(sentences, sentence) = 0 THEN 1 ELSE 0
    IN  /\ IF changes = 1
           THEN LET sentence_id == Len(sentences) + 1
                    r == AddWords(tokens, sentence_id, words, word_sentence)
                IN  /\ sentences' = Append(sentences, sentence)
                    /\ words' = r.words
                    /\ word_sentence' = r.word_sentence
           ELSE UNCHANGED store
        /\ ret' = [op |-> "add_sentence", arg |-> sentence,
                   val |-> IF changes = 1 THEN "inserted" ELSE "ignored"]
        /\ UNCHANGED <<now, reviews, tx>>

review_word_old_duration(word, response_quality) ==
    LET word_id == WordId(words, word)
    IN  /\ IF word_id # 0
           THEN LET sm == super_memo_2(
                            SuperMemoItem(words[word_id].repitition,
                                          words[word_id].review_duration,
                                          words[word_id].e_factor),
                            response_quality)
                    next_review_time ==
                        Format(now + words[word_id].review_duration * TicksPerDay)
                IN  /\ words' = [words EXCEPT ![word_id] =
                                   [@ EXCEPT !.repitition      = sm.repitition,
                                             !.e_factor        = sm.e_factor,
                                             !.review_duration = sm.duration,
                                             !.next_review_at  = next_review_time,
                                             !.reviewed        = TRUE]]
                    /\ reviews' = reviews + 1
                    /\ ret' = [op |-> "review_word", arg |-> word, val |-> "ok"]
           ELSE /\ UNCHANGED <<words, reviews>>
                /\ ret' = [op |-> "review_word", arg |-> word, val |-> "WordNotFound"]
        /\ UNCHANGED <<sentences, word_sentence, now, tx>>

review_word_unwrap(word, response_quality) ==
    LET word_id == WordId(words, word)
    IN  /\ IF word_id # 0
           THEN LET sm == super_memo_2(
                            SuperMemoItem(words[word_id].repitition,
                                          words[word_id].review_duration,
                                          words[word_id].e_factor),
                            response_quality)
                    next_review_time == Format(now + sm.duration * TicksPerDay)
                IN  /\ words' = [words EXCEPT ![word_id] =
                                   [@ EXCEPT !.repitition      = sm.repitition,
                                             !.e_factor        = sm.e_factor,
                                             !.review_duration = sm.duration,
                                             !.next_review_at  = next_review_time,
                                             !.reviewed        = TRUE]]
                    /\ reviews' = reviews + 1
                    /\ ret' = [op |-> "review_word", arg |-> word, val |-> "ok"]
           ELSE /\ UNCHANGED <<words, reviews>>
                /\ ret' = [op |-> "review_word", arg |-> word, val |-> "panic"]
        /\ UNCHANGED <<sentences, word_sentence, now, tx>>

review_word(word, response_quality) ==
    LET word_id == WordId(words, word)
    IN  /\ IF word_id # 0
           THEN LET sm == super_memo_2(
                            SuperMemoItem(words[word_id].repitition,
                                          words[word_id].review_duration,
                                          words[word_id].e_factor),
                            response_quality)
                    next_review_time == Format(now + sm.duration * TicksPerDay)
                IN  /\ words' = [words EXCEPT ![word_id] =
                                   [@ EXCEPT !.repitition      = sm.repitition,
                                             !.e_factor        = sm.e_factor,
                                             !.review_duration = sm.duration,
                                             !.next_review_at  = next_review_time,
                                             !.reviewed        = TRUE]]
                    /\ reviews' = reviews + 1
                    /\ ret' = [op |-> "review_word", arg |-> word, val |-> "ok"]
           ELSE /\ UNCHANGED <<words, reviews>>
                /\ ret' = [op |-> "review_word", arg |-> word, val |-> "WordNotFound"]
        /\ UNCHANGED <<sentences, word_sentence, now, tx>>

\* the rows of `WHERE reviewed = TRUE AND next_review_at < ?` (a NULL
\* next_review_at compares as NULL and the row is left out)
Overdue(i) ==
    /\ words[i].reviewed
    /\ words[i].next_review_at # NULL
    /\ TextLess(words[i].next_review_at, Format(now))

ScheduledRows_latest ==
    { i \in 1..Len(words) :
        /\ Overdue(i)
        /\ \A j \in 1..Len(words) :
             Overdue(j) => ~TextLess(words[i].next_review_at, words[j].next_review_at) }

\* ... ORDER BY next_review_at ASC LIMIT 1: any row with the least text
ScheduledRows ==
    { i \in 1..Len(words) :
        /\ Overdue(i)
        /\ \A j \in 1..Len(words) :
             Overdue(j) => ~TextLess(words[j].next_review_at, words[i].next_review_at) }

NewRows_highest_frequency ==
    { i \in 1..Len(words) :
        /\ ~words[i].reviewed
        /\ \A j \in 1..Len(words) :
             ~words[j].reviewed => ~MagLess(words[i].frequency, words[j].frequency) }

\* WHERE reviewed = FALSE ORDER BY frequency ASC LIMIT 1
NewRows ==
    { i \in 1..Len(words) :
        /\ ~words[i].reviewed
        /\ \A j \in 1..Len(words) :
             ~words[j].reviewed => ~MagLess(words[j].frequency, words[i].frequency) }

\* what get_word_to_review may return in the current state
WordToReview_new_first ==
    IF NewRows # {} THEN { words[i].text : i \in NewRows }
    ELSE IF ScheduledRows # {} THEN { words[i].text : i \in ScheduledRows }
    ELSE {"none"}

WordToReview ==
    IF ScheduledRows # {} THEN { words[i].text : i \in ScheduledRows }
    ELSE IF NewRows # {} THEN { words[i].text : i \in NewRows }
    ELSE {"none"}

get_word_to_review ==
    /\ \E w \in WordToReview :
         ret' = [op |-> "get_word_to_review", arg |-> "", val |-> w]
    /\ UNCHANGED <<store, now, reviews, tx>>

\* sentence_id of the rows of word_sentence WHERE word_id = ?
SentencesOf(word_id) == { p[2] : p \in { q \in word_sentence : q[1] = word_id } }

\* word_id of the rows of word_sentence WHERE sentence_id = ?
WordsOf(sentence_id) == { p[1] : p \in { q \in word_sentence : q[2] = sentence_id } }

\* the orders in which a query may enumerate a set of rows
Orders(S) ==
    { f \in [1..Cardinality(S) -> S] :
        \A i, j \in 1..Cardinality(S) : i # j => f[i] # f[j] }

\* the inner loop: total += word_freq as f64, the reviewed word left out
RECURSIVE TotalOf(_, _)
TotalOf(ids, review_word_id) ==
    IF ids = {} THEN I64(0)
    ELSE LET word_id == CHOOSE x \in ids : TRUE
             rest    == TotalOf(ids \ {word_id}, review_word_id)
         IN  IF word_id # review_word_id
             THEN F64Add(rest, AsF64(words[word_id].frequency))
             ELSE rest

RECURSIVE Fittest_ties_replace(_, _, _)
Fittest_ties_replace(rows, review_word_id, fittest_sentence) ==
    IF rows = <<>> THEN fittest_sentence
    ELSE LET sentence_id == Head(rows)
             total == TotalOf(WordsOf(sentence_id), review_word_id)
             next  == IF fittest_sentence = <<>> THEN <<sentence_id, total>>
                      ELSE IF ~MagLess(fittest_sentence[2], total)
                           THEN <<sentence_id, total>>
                           ELSE fittest_sentence
         IN  Fittest_ties_replace(Tail(rows), review_word_id, next)

\* the outer loop over sentence_ids; fittest is <<>> (None) or <<id, cost>>
RECURSIVE Fittest(_, _, _)
Fittest(rows, review_word_id, fittest_sentence) ==
    IF rows = <<>> THEN fittest_sentence
    ELSE LET sentence_id == Head(rows)
             total == TotalOf(WordsOf(sentence_id), review_word_id)
             next  == IF fittest_sentence = <<>> THEN <<sentence_id, total>>
                      ELSE IF MagLess(total, fittest_sentence[2])
                           THEN <<sentence_id, total>>
                           ELSE fittest_sentence
         IN  Fittest(Tail(rows), review_word_id, next)

\* rows: the order in which the query enumerates the word's sentences
get_sentence_to_review(word, rows) ==
    LET review_word_id == WordId(words, word)
    IN  /\ IF review_word_id = 0
           THEN ret' = [op |-> "get_sentence_to_review", arg |-> word, val |-> "panic"]
           ELSE /\ rows \in Orders(SentencesOf(review_word_id))
                /\ LET fittest_sentence == Fittest(rows, review_word_id, <<>>)
                   IN  ret' = [op |-> "get_sentence_to_review", arg |-> word,
                               val |-> IF fittest_sentence = <<>> THEN "none"
                                       ELSE sentences[fittest_sentence[1]]]
        /\ UNCHANGED <<store, now, reviews, tx>>

verb_review_no_upper_limit(input, rows) ==
    \E word \in WordToReview :
        IF word = "none"
        THEN /\ ret' = [op |-> "verb_review", arg |-> "", val |-> "panic: no word"]
             /\ UNCHANGED <<store, now, reviews, tx>>
        ELSE LET review_word_id   == WordId(words, word)
                 fittest_sentence == Fittest(rows, review_word_id, <<>>)
             IN  /\ rows \in Orders(SentencesOf(review_word_id))
                 /\ IF fittest_sentence = <<>>
                    THEN /\ ret' = [op |-> "verb_review", arg |-> word,
                                    val |-> "panic: no sentence"]
                         /\ UNCHANGED <<store, now, reviews, tx>>
                    ELSE IF ~input.ok
                    THEN /\ ret' = [op |-> "verb_review", arg |-> word,
                                    val |-> "not a number"]
                         /\ UNCHANGED <<store, now, reviews, tx>>
                    ELSE IF input.quality < 0
                    THEN /\ ret' = [op |-> "verb_review", arg |-> word,
                                    val |-> "rejected"]
                         /\ UNCHANGED <<store, now, reviews, tx>>
                    ELSE review_word(word, input.quality)

\* the review verb: the word to review, a sentence for it, the rating read
\* from stdin, and review_word when the rating is within 0.0 .. 5.0
verb_review(input, rows) ==
    \E word \in WordToReview :
        IF word = "none"
        THEN /\ ret' = [op |-> "verb_review", arg |-> "", val |-> "panic: no word"]
             /\ UNCHANGED <<store, now, reviews, tx>>
        ELSE LET review_word_id   == WordId(words, word)
                 fittest_sentence == Fittest(rows, review_word_id, <<>>)
             IN  /\ rows \in Orders(SentencesOf(review_word_id))
                 /\ IF fittest_sentence = <<>>
                    THEN /\ ret' = [op |-> "verb_review", arg |-> word,
                                    val |-> "panic: no sentence"]
                         /\ UNCHANGED <<store, now, reviews, tx>>
                    ELSE IF ~input.ok
                    THEN /\ ret' = [op |-> "verb_review", arg |-> word,
                                    val |-> "not a number"]
                         /\ UNCHANGED <<store, now, reviews, tx>>
                    ELSE IF input.quality > 10 \/ input.quality < 0
                    THEN /\ ret' = [op |-> "verb_review", arg |-> word,
                                    val |-> "rejected"]
                         /\ UNCHANGED <<store, now, reviews, tx>>
                    ELSE review_word(word, input.quality)

\* time passes between two calls
Tick ==
    /\ now < MaxNow
    /\ now' = now + 1
    /\ ret' = [op |-> "tick", arg |-> "", val |-> ""]
    /\ UNCHANGED <<store, reviews, tx>>

----------------------------------------------------------------------------
(* add_sentence statement by statement.  sentences, words and word_sentence *)
(* are the tables as the database file holds them for the next reader; the  *)
(* open transaction sees tx.sentences, tx.words and tx.word_sentence, and   *)
(* tx.journal is the image SQLite keeps to undo it.                         *)

\* the tokenizer has run; db_conn.transaction()
tx_begin(sentence) ==
    /\ tx.pc \in {"idle", "committed", "aborted"}
    /\ tx' = [ pc |-> "insert_sentence", sentence |-> sentence,
               tokens |-> tokenize(sentence), rest |-> tokenize(sentence),
               sentence_id |-> 0,
               sentences |-> sentences, words |-> words,
               word_sentence |-> word_sentence,
               journal |-> store ]
    /\ ret' = [op |-> "add_sentence", arg |-> sentence, val |-> "running"]
    /\ UNCHANGED <<store, now, reviews>>

\* INSERT OR IGNORE INTO sentences(text) ... == 1, last_insert_rowid()
tx_insert_sentence ==
    /\ tx.pc = "insert_sentence"
    /\ IF SentenceId(tx.sentences, tx.sentence) = 0
       THEN tx' = [tx EXCEPT !.sentences = Append(@, tx.sentence),
                             !.sentence_id = Len(tx.sentences) + 1,
                             !.pc = IF tx.rest = <<>> THEN "commit" ELSE "upsert"]
       ELSE tx' = [tx EXCEPT !.pc = "commit"]
    /\ UNCHANGED <<store, now, reviews, ret>>

\* INSERT INTO words ... ON CONFLICT(text) DO UPDATE for the next word
tx_upsert ==
    /\ tx.pc = "upsert"
    /\ LET word      == Head(tx.rest)
           frequency == get_word_freq(word)
       IN  tx' = [tx EXCEPT !.words = UpsertWord(@, word, frequency),
                            !.pc = "link"]
    /\ UNCHANGED <<store, now, reviews, ret>>

\* SELECT id ... and INSERT OR IGNORE INTO word_sentence for that word
tx_link ==
    /\ tx.pc = "link"
    /\ LET word    == Head(tx.rest)
           word_id == WordId(tx.words, word)
       IN  tx' = [tx EXCEPT !.word_sentence = @ \cup {<<word_id, tx.sentence_id>>},
                            !.rest = Tail(@),
                            !.pc = IF Tail(tx.rest) = <<>> THEN "commit" ELSE "upsert"]
    /\ UNCHANGED <<store, now, reviews, ret>>

\* tx.commit()
tx_commit ==
    /\ tx.pc = "commit"
    /\ sentences' = tx.sentences
    /\ words' = tx.words
    /\ word_sentence' = tx.word_sentence
    /\ tx' = [tx EXCEPT !.pc = "committed"]
    /\ ret' = [op |-> "add_sentence", arg |-> tx.sentence,
               val |-> IF tx.sentence_id # 0 THEN "inserted" ELSE "ignored"]
    /\ UNCHANGED <<now, reviews>>

tx_abort_commits ==
    /\ tx.pc \in {"insert_sentence", "upsert", "link", "commit"}
    /\ sentences' = tx.sentences
    /\ words' = tx.words
    /\ word_sentence' = tx.word_sentence
    /\ tx' = [tx EXCEPT !.pc = "aborted"]
    /\ ret' = [op |-> "add_sentence", arg |-> tx.sentence, val |-> "panic"]
    /\ UNCHANGED <<now, reviews>>

\* a statement or the commit returns Err and unwrap() panics, or the process
\* dies: the Transaction is dropped, or the journal is found at the next
\* open, and the transaction is rolled back
tx_abort ==
    /\ tx.pc \in {"insert_sentence", "upsert", "link", "commit"}
    /\ tx' = [tx EXCEPT !.pc = "aborted"]
    /\ ret' = [op |-> "add_sentence", arg |-> tx.sentence, val |-> "panic"]
    /\ UNCHANGED <<store, now, reviews>>

----------------------------------------------------------------------------
(* The program: any sequence of calls on a database that starts empty *)

\* nothing recorded yet for any word
NoHist == [w \in WordTexts |-> [passes |-> 0, lapsed |-> FALSE, at |-> 0]]

\* the history after review_word(word, response_quality): passes is the
\* number of ratings of 3.0 or more recorded for the word since its last
\* rating below 3.0, lapsed tells whether there was such a rating, at is the
\* instant of the word's last review
Recorded(word, response_quality) ==
    IF WordId(words, word) = 0 THEN hist
    ELSE [hist EXCEPT ![word] =
            IF response_quality < 6
            THEN [passes |-> 0, lapsed |-> TRUE, at |-> now]
            ELSE [passes |-> @.passes + 1, lapsed |-> @.lapsed, at |-> now]]

Init ==
    /\ sentences = <<>>
    /\ words = <<>>
    /\ word_sentence = {}
    /\ now = 0
    /\ reviews = 0
    /\ tx = NoTx
    /\ hist = NoHist
    /\ ret = [op |-> "new", arg |-> "", val |-> ""]

AllRows == UNION { Orders(S) : S \in SUBSET (1..Cardinality(SentenceTexts)) }

Next ==
    \/ /\ \E sentence \in SentenceTexts, tokens \in TokenSeqs :
            /\ SentenceId(sentences, sentence) = 0 => tokens = tokenize(sentence)
            /\ add_sentence(sentence, tokens)
       /\ UNCHANGED hist
    \/ /\ \E word \in WordTexts, q \in SomeQualities :
            reviews < MaxReviews /\ review_word(word, q)
       /\ UNCHANGED hist
    \/ /\ get_word_to_review
       /\ UNCHANGED hist
    \/ /\ \E word \in WordTexts, rows \in AllRows : get_sentence_to_review(word, rows)
       /\ UNCHANGED hist
    \/ /\ \E input \in QualityInputs, rows \in AllRows :
            reviews < MaxReviews /\ verb_review(input, rows)
       /\ UNCHANGED hist
    \/ /\ Tick
       /\ UNCHANGED hist

Spec == Init /\ [][Next]_vars

----------------------------------------------------------------------------
(* One word reviewed again and again *)

NextOneWord ==
    \/ /\ add_sentence("s1", tokenize("s1"))
       /\ UNCHANGED hist
    \/ \E q \in Qualities :
          /\ reviews < MaxWordReviews
          /\ review_word("a", q)
          /\ hist' = Recorded("a", q)
    \/ /\ Tick
       /\ UNCHANGED hist

SpecOneWord == Init /\ [][NextOneWord]_vars

----------------------------------------------------------------------------
(* super_memo_2 alone, applied once to any item and any rating *)

Eases == {0, 1300, 1700, 2500}

Items ==
    { SuperMemoItem(r, d, e) : r \in 0..MaxRep, d \in 0..MaxDuration, e \in Eases }

InitSM ==
    /\ sentences = <<>>
    /\ words = <<>>
    /\ word_sentence = {}
    /\ now = 0
    /\ reviews = 0
    /\ tx = NoTx
    /\ hist = NoHist
    /\ ret \in { [op |-> "item", arg |-> <<>>, val |-> item] : item \in Items }

sm_step(response_quality) ==
    /\ ret.op = "item"
    /\ ret' = [op  |-> "super_memo_2",
               arg |-> [item |-> ret.val, response_quality |-> response_quality],
               val |-> super_memo_2(ret.val, response_quality)]
    /\ UNCHANGED <<store, now, reviews, tx>>

NextSM == \E q \in Qualities : sm_step(q) /\ UNCHANGED hist

SpecSM == InitSM /\ [][NextSM]_vars

----------------------------------------------------------------------------
(* Reviews and picks on the two words of one sentence, with the instant of  *)
(* each word's last review recorded                                         *)

NextDue ==
    \/ /\ add_sentence("s2", tokenize("s2"))
       /\ UNCHANGED hist
    \/ \E word \in WordTexts, q \in SomeQualities :
          /\ reviews < MaxWordReviews
          /\ review_word(word, q)
          /\ hist' = Recorded(word, q)
    \/ /\ get_word_to_review
       /\ UNCHANGED hist
    \/ /\ Tick
       /\ UNCHANGED hist

SpecDue == Init /\ [][NextDue]_vars

----------------------------------------------------------------------------
(* Ingestion statement by statement, with failures; the third text has no   *)
(* token with a base form                                                   *)

IngestTexts == SentenceTexts \cup {"s3"}

NextTx ==
    \/ /\ \E sentence \in IngestTexts : tx_begin(sentence)
       /\ UNCHANGED hist
    \/ /\ tx_insert_sentence
       /\ UNCHANGED hist
    \/ /\ tx_upsert
       /\ UNCHANGED hist
    \/ /\ tx_link
       /\ UNCHANGED hist
    \/ /\ tx_commit
       /\ UNCHANGED hist
    \/ /\ tx_abort
       /\ UNCHANGED hist

SpecTx == Init /\ [][NextTx]_vars

----------------------------------------------------------------------------
(* The sentence selector on a corpus of three texts, two of which hold the  *)
(* same words                                                               *)

SelectTexts == SentenceTexts \cup {"s4"}

SelectRows == UNION { Orders(S) : S \in SUBSET (1..Cardinality(SelectTexts)) }

NextSelect ==
    \/ /\ \E sentence \in SelectTexts : add_sentence(sentence, tokenize(sentence))
       /\ UNCHANGED hist
    \/ /\ \E word \in WordTexts, rows \in SelectRows :
            get_sentence_to_review(word, rows)
       /\ UNCHANGED hist

SpecSelect == Init /\ [][NextSelect]_vars

----------------------------------------------------------------------------
(* iterate_sentences, one char of the text at a time.  A char is a string   *)
(* of one character: "[" stands for the open quote, "]" for the close       *)
(* quote, "." for the terminators that are no white space (the full stop,   *)
(* the exclamation and the question mark), "x" for any other letter; the    *)
(* newline is itself, a terminator and the one char here that trim() takes  *)
(* for white space.                                                         *)

terminators == {".", "\n"}
open_quotes == {"["}
close_quotes == {"]"}
Chars == open_quotes \cup close_quotes \cup terminators \cup {"x"}
WhiteSpace == {"\n"}

RECURSIVE TrimStart(_)
TrimStart(str) ==
    IF str # <<>> /\ Head(str) \in WhiteSpace THEN TrimStart(Tail(str)) ELSE str

RECURSIVE TrimEnd(_)
TrimEnd(str) ==
    IF str # <<>> /\ str[Len(str)] \in WhiteSpace
    THEN TrimEnd(SubSeq(str, 1, Len(str) - 1))
    ELSE str

\* str.trim()
Trim(str) == TrimEnd(TrimStart(str))

ForChar_at_any_depth(st, c) ==
    LET cur_string == Append(st.cur_string, c)
    IN  IF c \in open_quotes
        THEN [st EXCEPT !.cur_string = cur_string, !.depth = @ + 1]
        ELSE IF c \in close_quotes
        THEN [st EXCEPT !.cur_string = cur_string, !.depth = @ - 1]
        ELSE IF c \in terminators
        THEN LET sentence == Trim(cur_string)
             IN  [st EXCEPT !.cur_string = <<>>,
                            !.func = IF sentence # <<>> THEN Append(@, sentence)
                                     ELSE @]
        ELSE [st EXCEPT !.cur_string = cur_string]

\* the body of `for c in text.chars()`; st.func holds the sentences func
\* has been called with so far
ForChar(st, c) ==
    LET cur_string == Append(st.cur_string, c)
    IN  IF c \in open_quotes
        THEN [st EXCEPT !.cur_string = cur_string, !.depth = @ + 1]
        ELSE IF c \in close_quotes
        THEN [st EXCEPT !.cur_string = cur_string, !.depth = @ - 1]
        ELSE IF st.depth = 0 /\ c \in terminators
        THEN LET sentence == Trim(cur_string)
             IN  [st EXCEPT !.cur_string = <<>>,
                            !.func = IF sentence # <<>> THEN Append(@, sentence)
                                     ELSE @]
        ELSE [st EXCEPT !.cur_string = cur_string]

\* before the loop: depth 0, cur_string empty; ret.arg is the text read so far
InitSplit ==
    /\ sentences = <<>>
    /\ words = <<>>
    /\ word_sentence = {}
    /\ now = 0
    /\ reviews = 0
    /\ tx = NoTx
    /\ hist = NoHist
    /\ ret = [op |-> "iterate_sentences", arg |-> <<>>,
              val |-> [depth |-> 0, cur_string |-> <<>>, func |-> <<>>]]

\* the loop takes the next char c of the text
iterate_sentences(c) ==
    /\ ret.op = "iterate_sentences"
    /\ Len(ret.arg) < MaxTextLen
    /\ ret' = [ret EXCEPT !.arg = Append(@, c), !.val = ForChar(@, c)]
    /\ UNCHANGED <<store, now, reviews, tx>>

NextSplit == \E c \in Chars : iterate_sentences(c) /\ UNCHANGED hist

SpecSplit == InitSplit /\ [][NextSplit]_vars

----------------------------------------------------------------------------
(* Properties *)

\* the instant a timestamp text names, in ticks
TimeOf(text) ==
    ((text[1] - 48) * 10 + (text[2] - 48)) * TicksPerDay
    + (IF text[3] = 46 THEN ((text[4] - 48) * TicksPerDay) \div 10 ELSE 0)

\* word row i is reviewed and its next review lies before instant t
DueBefore(i, t) == words[i].reviewed /\ TimeOf(words[i].next_review_at) < t

WordIds == 1..Len(words)

\* C1: add_sentence with a text that is already a row of sentences leaves
\* sentences, words and word_sentence unchanged, whatever the tokens are, and
\* the text is still the text of exactly one row.
C1_IngestIdempotent ==
    [][ \A s \in SentenceTexts :
          (/\ SentenceId(sentences, s) # 0
           /\ ret'.op = "add_sentence"
           /\ \E t \in TokenSeqs : add_sentence(s, t))
          => /\ UNCHANGED store
             /\ Cardinality({ i \in 1..Len(sentences') : sentences'[i] = s }) = 1 ]_vars

C1_Witness ==
    /\ ret.op = "add_sentence"
    /\ ret.val = "ignored"
    /\ Len(sentences) = 1
    /\ Len(words) >= 2

\* C2: whenever some word is reviewed and overdue, what get_word_to_review
\* returned is a reviewed, overdue word (never an unreviewed one).
C2_OverdueFirst ==
    (ret.op = "get_word_to_review" /\ \E i \in WordIds : DueBefore(i, now))
    => \E i \in WordIds : words[i].text = ret.val /\ DueBefore(i, now)

\* an overdue word of rank i64::MAX is returned although an unreviewed word of
\* rank 0 exists
C2_Witness ==
    /\ ret.op = "get_word_to_review"
    /\ \E i, j \in WordIds :
         /\ DueBefore(i, now)
         /\ words[i].text = ret.val
         /\ words[i].frequency = I64_MAX
         /\ ~words[j].reviewed
         /\ words[j].frequency = I64(0)

\* the sum of frequency over the words of a sentence other than the target,
\* as an exact integer [hi, lo]
RECURSIVE ExactCost(_, _)
ExactCost(ids, target) ==
    IF ids = {} THEN [hi |-> 0, lo |-> 0]
    ELSE LET x    == CHOOSE x \in ids : TRUE
             rest == ExactCost(ids \ {x}, target)
         IN  IF x = target THEN rest
             ELSE [hi |-> rest.hi + words[x].frequency.hi,
                   lo |-> rest.lo + words[x].frequency.lo]

\* C3: for a word of the store, get_sentence_to_review returns none exactly
\* when no sentence is linked to it, and otherwise a linked sentence whose
\* cost is at most the cost of every linked sentence.
C3_MinimalCost ==
    (ret.op = "get_sentence_to_review" /\ WordId(words, ret.arg) # 0)
    => LET w == WordId(words, ret.arg)
           S == SentencesOf(w)
       IN  /\ (ret.val = "none") <=> (S = {})
           /\ S # {} =>
                \E s \in S :
                  /\ sentences[s] = ret.val
                  /\ \A s2 \in S :
                       ~MagLess(ExactCost(WordsOf(s2), w), ExactCost(WordsOf(s), w))

\* C4: after a review the ease factor stored for the word is at least 1.3.
C4_EaseFloor ==
    (ret.op = "review_word" /\ ret.val = "ok")
    => words[WordId(words, ret.arg)].e_factor >= 1300

\* C5: for a rating below 3 the scheduler returns repetition 1, duration 1
\* and the ease factor it was given, whatever the item.
C5_Lapse ==
    (ret.op = "super_memo_2" /\ ret.arg.response_quality < 6)
    => ret.val = [repitition |-> 1, duration |-> 1,
                  e_factor |-> ret.arg.item.e_factor]

C5_Witness ==
    /\ ret.op = "super_memo_2"
    /\ ret.arg.response_quality = 5
    /\ ret.arg.item.repitition >= 2
    /\ ret.arg.item.duration > 1
    /\ ret.arg.item.e_factor = 2500
    /\ ret.val.repitition = 1

\* C6: for a rating of 3 or more, repetition 0 gives (1, 1, ease unchanged)
\* and repetition 1 gives (2, 6, ease unchanged), whatever the stored
\* duration and ease are.
C6_FixedSteps ==
    (ret.op = "super_memo_2" /\ ret.arg.response_quality >= 6)
    => /\ ret.arg.item.repitition = 0
            => ret.val = [repitition |-> 1, duration |-> 1,
                          e_factor |-> ret.arg.item.e_factor]
       /\ ret.arg.item.repitition = 1
            => ret.val = [repitition |-> 2, duration |-> 6,
                          e_factor |-> ret.arg.item.e_factor]

C6_Witness ==
    /\ ret.op = "super_memo_2"
    /\ ret.arg.response_quality >= 6
    /\ ret.arg.item.repitition = 1
    /\ ret.arg.item.duration = 3
    /\ ret.val.duration = 6

\* C7: for repetition r >= 2 and a rating q of 3 or more the scheduler
\* returns the ease e' = max(1.3, e + 0.1 - (5-q)*(0.08 + (5-q)*0.02)), the
\* duration ceil(d * e') taken with the new ease, and repetition r + 1.
C7_Growth ==
    (ret.op = "super_memo_2" /\ ret.arg.response_quality >= 6
        /\ ret.arg.item.repitition >= 2)
    => LET k  == 10 - ret.arg.response_quality
           e  == ret.arg.item.e_factor + 100 - 40 * k - 5 * k * k
           e1 == IF e > 1300 THEN e ELSE 1300
           d  == ret.arg.item.duration
       IN  /\ ret.val.e_factor = e1
           /\ ret.val.duration * 1000 >= d * e1
           /\ (ret.val.duration - 1) * 1000 < d * e1
           /\ ret.val.repitition = ret.arg.item.repitition + 1

C7_Witness ==
    /\ ret.op = "super_memo_2"
    /\ ret.arg.response_quality = 10
    /\ ret.arg.item = [repitition |-> 2, duration |-> 6, e_factor |-> 2500]
    /\ ret.val = [repitition |-> 3, duration |-> 16, e_factor |-> 2600]

\* C8: a review of a word at repetition >= 2 with a rating of 3 or more never
\* makes review_duration smaller.
C8_DurationGrows ==
    [][ \A w \in WordTexts, q \in Qualities :
          LET id == WordId(words, w)
          IN  (/\ ret'.op = "review_word"
               /\ id # 0 /\ q >= 6 /\ words[id].repitition >= 2
               /\ review_word(w, q))
              => words'[id].review_duration >= words[id].review_duration ]_vars

C8_Witness ==
    /\ ret.op = "review_word"
    /\ ret.val = "ok"
    /\ words[WordId(words, ret.arg)].repitition = 4
    /\ words[WordId(words, ret.arg)].review_duration > 8

\* C9: a review of a word of the store leaves in its row the scheduler's
\* result for the row's former values, reviewed = true and a next_review_at
\* that names the instant of the review plus review_duration days; and a row
\* that is reviewed stays reviewed.
C9_ReviewPersists ==
    [][ /\ \A w \in WordTexts, q \in Qualities :
             LET id == WordId(words, w)
                 sm == super_memo_2(
                         SuperMemoItem(words[id].repitition,
                                       words[id].review_duration,
                                       words[id].e_factor), q)
             IN  (ret'.op = "review_word" /\ id # 0 /\ review_word(w, q))
                 => /\ words'[id].repitition = sm.repitition
                    /\ words'[id].review_duration = sm.duration
                    /\ words'[id].e_factor = sm.e_factor
                    /\ words'[id].reviewed
                    /\ TimeOf(words'[id].next_review_at)
                         = now + words'[id].review_duration * TicksPerDay
                    /\ ret'.val = "ok"
        /\ \A i \in WordIds : words[i].reviewed => words'[i].reviewed ]_vars

C9_Witness ==
    /\ ret.op = "review_word"
    /\ ret.val = "ok"
    /\ now > 0
    /\ LET row == words[WordId(words, ret.arg)]
       IN  /\ row.reviewed
           /\ row.repitition = 2
           /\ row.review_duration = 6
           /\ row.next_review_at = Format(now + 6 * TicksPerDay)

\* C10: a review of a word text that is no row of words returns WordNotFound
\* to its caller and changes no row of any table.
C10_WordNotFound ==
    [][ \A w \in WordTexts, q \in Qualities :
          (ret'.op = "review_word" /\ WordId(words, w) = 0 /\ review_word(w, q))
          => /\ UNCHANGED store
             /\ ret'.val = "WordNotFound" ]_vars

C10_Witness ==
    /\ ret.op = "review_word"
    /\ ret.val = "WordNotFound"
    /\ Len(words) > 0
    /\ \E i \in WordIds : words[i].reviewed

\* C11: when the rating read by verb_review is a number below 0.0 or above
\* 5.0, the step changes no row of any table (so no repitition,
\* review_duration, e_factor, next_review_at or reviewed of any word): the
\* rating is turned down before review_word is called.
C11_InvalidRatingRejected ==
    [][ \A input \in QualityInputs :
          (/\ ret'.op \in {"verb_review", "review_word"}
           /\ input.ok
           /\ (input.quality < 0 \/ input.quality > 10)
           /\ \E rows \in AllRows : verb_review(input, rows))
          => /\ UNCHANGED store
             /\ ret'.op = "verb_review" ]_vars

\* a rating was turned down for a word that is scheduled and overdue
C11_Witness ==
    /\ ret.op = "verb_review"
    /\ ret.val = "rejected"
    /\ \E i \in WordIds : words[i].text = ret.arg /\ DueBefore(i, now)

\* C12: add_sentence of a text without any token leaves sentences, words
\* and word_sentence as they were before the call.
C12_EmptyTokenizationRejected ==
    (tx.pc = "committed" /\ tx.tokens = <<>>) => store = tx.journal

\* the tables after whole ingests of the texts ss[k], ss[k+1], ... in turn
RECURSIVE Replay(_, _, _, _)
Replay(ss, k, ws, links) ==
    IF k > Len(ss) THEN <<ss, ws, links>>
    ELSE LET r == AddWords(tokenize(ss[k]), k, ws, links)
         IN  Replay(ss, k + 1, r.words, r.word_sentence)

\* C13: after add_sentence has failed, at whichever statement, the tables
\* the database holds are those of the moment the call began; and at every
\* moment they are the outcome of whole ingests of the sentence rows they
\* hold, never a sentence row with part of its words, counts or links.
C13_AllOrNothing ==
    /\ tx.pc \notin {"idle", "committed"} => store = tx.journal
    /\ store = Replay(sentences, 1, <<>>, {})

\* the call failed after it had inserted the sentence row and upserted a
\* word that the database already held
C13_Witness ==
    /\ tx.pc = "aborted"
    /\ tx.sentence_id > 1
    /\ tx.words # words
    /\ Len(tx.words) = Len(words)
    /\ ret.val = "panic"

\* C14: when no reviewed word is overdue, get_word_to_review returns a word
\* that is not reviewed and whose frequency no other unreviewed word
\* undercuts; and it returns none exactly when there is neither an overdue
\* reviewed word nor an unreviewed word.
C14_NewWordByFrequency ==
    ret.op = "get_word_to_review"
    => /\ (/\ ~\E i \in WordIds : DueBefore(i, now)
           /\ \E i \in WordIds : ~words[i].reviewed)
          => \E i \in WordIds :
                /\ words[i].text = ret.val
                /\ ~words[i].reviewed
                /\ \A j \in WordIds :
                     ~words[j].reviewed
                     => ~MagLess(words[j].frequency, words[i].frequency)
       /\ ret.val = "none"
          <=> /\ ~\E i \in WordIds : DueBefore(i, now)
              /\ ~\E i \in WordIds : ~words[i].reviewed

\* a word is scheduled but not due, two words of different frequency are
\* unreviewed, and the one of lower frequency was returned
C14_Witness ==
    /\ ret.op = "get_word_to_review"
    /\ \E i, j, k \in WordIds :
         /\ words[i].reviewed /\ ~DueBefore(i, now)
         /\ ~words[j].reviewed /\ ~words[k].reviewed
         /\ words[j].text = ret.val
         /\ MagLess(words[j].frequency, words[k].frequency)

QuotedShape(text) ==
    /\ Len(text) >= 4
    /\ text[1] \in open_quotes
    /\ text[Len(text)] \in terminators
    /\ \E k \in 2..(Len(text) - 2) :
         /\ text[k] \in terminators
         /\ text[k + 1] \in close_quotes
         /\ \A i \in (2..(k - 1)) \cup ((k + 2)..(Len(text) - 1)) : text[i] = "x"

C17_FirstOfTies ==
    [][ \A word \in WordTexts, rows \in SelectRows :
          (/\ ret'.op = "get_sentence_to_review"
           /\ WordId(words, word) # 0
           /\ get_sentence_to_review(word, rows))
          => LET id       == WordId(words, word)
                 Total(n) == TotalOf(WordsOf(rows[n]), id)
             IN  \E k \in 1..Len(rows) :
                    /\ ret'.val = sentences[rows[k]]
                    /\ \A j \in 1..Len(rows) : ~MagLess(Total(j), Total(k))
                    /\ \A j \in 1..(k - 1) : MagLess(Total(k), Total(j)) ]_vars

\* the word has three sentences, two of them of the same least cost (as an
\* exact sum, too), and one of these two was returned
C17_Witness ==
    /\ ret.op = "get_sentence_to_review"
    /\ LET id == WordId(words, ret.arg)
       IN  /\ id # 0
           /\ Cardinality(SentencesOf(id)) = 3
           /\ \E m, n, o \in SentencesOf(id) :
                /\ m # n
                /\ ret.val = sentences[m]
                /\ ExactCost(WordsOf(m), id) = ExactCost(WordsOf(n), id)
                /\ ExactCost(WordsOf(m), id).hi = 0
                /\ ExactCost(WordsOf(o), id).lo > ExactCost(WordsOf(m), id).lo

\* C18: add_sentence leaves every column but count of every row that words
\* already held as it was (reviewed, next_review_at, review_duration,
\* e_factor, repitition, frequency, and the text); review_word leaves count
\* and frequency of every word, the table sentences and the table
\* word_sentence as they were, and adds no row to words.
C18_Frame ==
    [][ /\ (/\ ret'.op = "add_sentence"
            /\ \E s \in SentenceTexts, t \in TokenSeqs : add_sentence(s, t))
           => /\ Len(words') >= Len(words)
              /\ \A i \in WordIds :
                   words'[i] = [words[i] EXCEPT !.count = words'[i].count]
        /\ (/\ ret'.op = "review_word"
            /\ \E w \in WordTexts, q \in Qualities : review_word(w, q))
           => /\ sentences' = sentences
              /\ word_sentence' = word_sentence
              /\ Len(words') = Len(words)
              /\ \A i \in WordIds :
                   /\ words'[i].count = words[i].count
                   /\ words'[i].frequency = words[i].frequency
                   /\ words'[i].text = words[i].text ]_vars

\* a sentence was ingested that raised the count of a word already reviewed
\* twice
C18_Witness ==
    /\ ret.op = "add_sentence"
    /\ ret.val = "inserted"
    /\ Len(sentences) = 2
    /\ \E i \in WordIds :
         /\ words[i].reviewed
         /\ words[i].repitition = 2
         /\ words[i].count >= 2
         /\ <<i, 2>> \in word_sentence

\* C19 as the spec words it: the repitition of a word is the number of its
\* reviews rated 3.0 or more since its last review rated below 3.0 (since
\* its creation if there is none).
C19_CountsPasses ==
    \A i \in WordIds : words[i].repitition = hist[words[i].text].passes

\* C19: the repitition of a word is the number of its reviews from its last
\* review rated below 3.0 on, that review counted in; it is the number of
\* all its reviews when none was rated below 3.0.
C19_CountsReviewsOfRun ==
    \A i \in WordIds :
        words[i].repitition
          = hist[words[i].text].passes
            + (IF hist[words[i].text].lapsed THEN 1 ELSE 0)

\* rated below 3.0 and then twice 3.0 or more: repitition is 3
C19_Witness ==
    /\ ret.op = "review_word"
    /\ \E i \in WordIds :
         /\ words[i].text = ret.arg
         /\ hist[ret.arg].lapsed
         /\ hist[ret.arg].passes = 2
         /\ words[i].repitition = 3

\* C20: every row of words has a row of word_sentence that links it to a row
\* of sentences (and every row of word_sentence links two existing rows); so
\* get_sentence_to_review returns a sentence of the word for every word of
\* the table, and verb_review never stops for want of a sentence.
C20_EveryWordHasASentence ==
    /\ \A i \in WordIds : \E n \in 1..Len(sentences) : <<i, n>> \in word_sentence
    /\ \A p \in word_sentence : p[1] \in WordIds /\ p[2] \in 1..Len(sentences)
    /\ (ret.op = "get_sentence_to_review" /\ WordId(words, ret.arg) # 0)
       => \E n \in SentencesOf(WordId(words, ret.arg)) : ret.val = sentences[n]
    /\ ret.op = "verb_review" => ret.val # "panic: no sentence"

\* verb_review found a word and a sentence for it and went on to read the
\* rating, on a database of two sentences
C20_Witness ==
    /\ ret.op = "verb_review"
    /\ ret.val = "not a number"
    /\ WordId(words, ret.arg) # 0
    /\ Len(sentences) = 2
    /\ Len(words) = 3

\* C21: every reviewed word has repitition >= 1 and review_duration >= 1,
\* and its next_review_at is a day or more after the instant of its last
\* review; so get_word_to_review, called less than a day after a word's last
\* review, does not return that word.
C21_NotDueWithinADay ==
    /\ \A i \in WordIds :
         words[i].reviewed
         => /\ words[i].repitition >= 1
            /\ words[i].review_duration >= 1
            /\ TimeOf(words[i].next_review_at)
                 >= hist[words[i].text].at + TicksPerDay
    /\ ret.op = "get_word_to_review"
       => \A i \in WordIds :
             (words[i].reviewed /\ now < hist[words[i].text].at + TicksPerDay)
             => ret.val # words[i].text

\* half a day after the review of a word, with no other word left to review,
\* get_word_to_review returned none
C21_Witness ==
    /\ ret.op = "get_word_to_review"
    /\ ret.val = "none"
    /\ \E i \in WordIds :
         /\ words[i].reviewed
         /\ hist[words[i].text].at < now
         /\ now < hist[words[i].text].at + TicksPerDay

====
